---- MODULE Spec2Model ----
(***************************************************************************)
(* The transactional batch record collection of my-rust-hyper:             *)
(* CarCollection::get / add / modify / remove (src/webapi/collections/     *)
(* car.rs, and their older copies get / add / update / delete in           *)
(* src/webapi/collections.rs) together with the ExpHelper expression       *)
(* builder, run against a database that buffers the writes of an open      *)
(* transaction, makes them visible at COMMIT and discards them otherwise.  *)
(*                                                                         *)
(* Every database round trip (begin, statement, commit, rollback, fetch)   *)
(* is an await point of the async fn, so each is one action; the local     *)
(* code that follows the round trip up to the next await is part of the    *)
(* same action.  Every round trip either succeeds or fails.                *)
(*                                                                         *)
(* The postgres build of car.rs is modelled (INSERT ... RETURNING id is    *)
(* one round trip; the mysql build splits it in two inside the same        *)
(* transaction).                                                           *)
(*                                                                         *)
(* Around the collection: DataProvider::new with the Error Name Table      *)
(* (collections.rs) and the start of main, which selects the address the   *)
(* server listens on from the environment (main.rs).                       *)
(***************************************************************************)
EXTENDS Integers, Sequences, FiniteSets, TLC

VARIABLES
    table,      \* committed rows of webapi.car: id -> car_name
    nextId,     \* next value of the id sequence of webapi.car
    pc,         \* per task: the await point the call is suspended at
    op,         \* per task: "get" | "add" | "modify" | "remove"
    items,      \* per task: the `items` argument (add, modify)
    ids,        \* per task: the `ids` argument (get, remove) / local (add)
    idx,        \* per task: items already consumed by the for loop
    count,      \* per task: modify's `count`
    wset,       \* per task: uncommitted writes of the open transaction
    tx,         \* per task: what became of the call's transaction
    result,     \* per task: what the call returned
    failed,     \* per task: the round trips of this call that failed
    hits,       \* per task: ids whose row an UPDATE of this call affected
    before,     \* the committed table when the current call was made
    script,     \* calls the scripted client still has to make
    trace,      \* results of the scripted calls that returned
    provider,   \* DataProvider::new: the await it is at, or how it ended
    error,      \* DataProvider.error: HashMap from error code to error name
    startup,    \* the round trips of DataProvider::new that failed
    helper,     \* ExpHelper::get_ids_as_exp: its argument, loop and result
    env,        \* the environment of the process: MY_BIN_HOST and PORT
    main        \* main: where it is, its locals host, port and addr

vars == <<table, nextId, pc, op, items, ids, idx, count, wset, tx, result,
          failed, hits, before, script, trace, provider, error, startup,
          helper, env, main>>

callVars == <<op, items>>
driverVars == <<before, script, trace>>
providerVars == <<provider, error, startup>>
\* what no operation of the collection touches
mainVars == <<env, main>>
outerVars == <<providerVars, helper, mainVars>>

----------------------------------------------------------------------------
(* Bounds *)

\* longest batch a client submits
MaxLen == 2
\* calls the concurrent clients make between them
MaxCalls == 2
\* ids the sequence hands out before nextval fails (sequence MAXVALUE)
MaxNew == 2

\* rows the error-definitions table holds when it is loaded
MaxErrorRows == 2

\* first id the sequence generates (concrete scenario: 10 and 11)
FirstId == 10

Tasks == {"t1", "t2"}
Main == "t1"
Names == {"Volvo", "Saab"}
\* an identifier no row ever has
MissingId == 999
\* identifiers clients ask get and remove for
ReqIds == {1, FirstId, MissingId}
\* identifiers the items given to modify carry
ItemIds == {1, MissingId}

----------------------------------------------------------------------------
(* Values *)

\* Option<T>: None is <<>>, Some(v) is <<v>>
None == <<>>
Some(v) == <<v>>
\* unwrap_or that puts -1 where the default stands
unwrap_or_minus_one(o, d) == IF Len(o) = 0 THEN 0 - 1 ELSE o[1]
unwrap_or(o, d) == IF Len(o) = 0 THEN d ELSE o[1]

Car(id, name) == [id |-> id, car_name |-> name]

SeqsUpTo(S, n) == UNION {[1..k -> S] : k \in 0..n}

EmptyTable == [i \in {} |-> ""]
\* the rows of tbl other than those with an id in S
Without(tbl, S) == [i \in DOMAIN tbl \ S |-> tbl[i]]
Range(s) == {s[k] : k \in 1..Len(s)}
Tombstone == "<deleted>"

\* errors::ErrorCode
ReplyOk == "ReplyOk"
DatabaseError == "DatabaseError"
NotFoundError == "NotFoundError"

\* What a call hands back.  kind: "none" (still running), "outcome"
\* (Ok(code) / Ok((code, ids))), "rows" (get's Ok(vec)), "err" (Err(e), the
\* raw sqlx error), "panic" (unwrap() on an Err).
Res(kind, code, optIds, rows) ==
    [kind |-> kind, code |-> code, ids |-> optIds, rows |-> rows]
NoResult == Res("none", "", None, <<>>)
Outcome(code) == Res("outcome", code, None, <<>>)
AddOutcome(code, optIds) == Res("outcome", code, optIds, <<>>)
Rows(rows) == Res("rows", "", None, rows)
RawErr == Res("err", "", None, <<>>)
Panic == Res("panic", "", None, <<>>)
\* the future of the call was dropped at an await: the caller gets nothing
Cancelled == Res("cancelled", "", None, <<>>)

----------------------------------------------------------------------------
(* ExpHelper *)

Digit(d) == <<"0", "1", "2", "3", "4", "5", "6", "7", "8", "9">>[d + 1]

RECURSIVE to_string(_)
\* i32::to_string: decimal digits, most significant first, "-" when negative
to_string(n) ==
    IF n < 0 THEN <<"-">> \o to_string(0 - n)
    ELSE IF n < 10 THEN <<Digit(n)>>
    ELSE to_string(n \div 10) \o <<Digit(n % 10)>>

RECURSIVE ids_as_exp_loop(_, _, _)
ids_as_exp_loop(list, k, res) ==
    IF k > Len(list) THEN res
    ELSE ids_as_exp_loop(list, k + 1,
            (IF Len(res) # 0 THEN Append(res, ",") ELSE res)
                \o to_string(list[k]))

\* the text between the parentheses of IN (...), as a sequence of characters
get_ids_as_exp(list) == ids_as_exp_loop(list, 1, <<>>)

TableName == "webapi.car"

get_select_in_exp(tbl, list) ==
    [verb |-> "SELECT", tbl |-> tbl, inlist |-> get_ids_as_exp(list)]

get_delete_in_exp(tbl, list) ==
    [verb |-> "DELETE", tbl |-> tbl, inlist |-> get_ids_as_exp(list)]

\* get_ids_as_exp run step by step: the frame of a call
HelperFrame(list, k, res, at) == [ids |-> list, pos |-> k, result |-> res, pc |-> at]
HelperIdle == HelperFrame(<<>>, 0, <<>>, "idle")

\* identifiers the builder is given: i32, negative ones and 0 included
BuilderIds == {0 - 1, 0, 1, FirstId, MissingId}

\* a call: let mut result = String::with_capacity(100)
HelperCall ==
    /\ helper.pc \in {"idle", "done"}
    /\ \E list \in SeqsUpTo(BuilderIds, MaxLen) :
            helper' = HelperFrame(list, 0, <<>>, "loop")

\* HelperNext that pushes the comma before every item, the first included
HelperNextCommaFirst ==
    /\ helper.pc = "loop"
    /\ helper.pos < Len(helper.ids)
    /\ helper' = [helper EXCEPT
            !.result = Append(@, ",") \o to_string(helper.ids[helper.pos + 1]),
            !.pos = @ + 1]

\* one turn of `for item in ids`
HelperNext ==
    /\ helper.pc = "loop"
    /\ helper.pos < Len(helper.ids)
    /\ helper' = [helper EXCEPT
            !.result = (IF Len(@) # 0 THEN Append(@, ",") ELSE @)
                            \o to_string(helper.ids[helper.pos + 1]),
            !.pos = @ + 1]

\* the loop is over: `result` is returned
HelperReturn ==
    /\ helper.pc = "loop"
    /\ helper.pos = Len(helper.ids)
    /\ helper' = [helper EXCEPT !.pc = "done"]

----------------------------------------------------------------------------
(* The database: what it does with the statements the code sends *)

DigitValue(c) == CHOOSE d \in 0..9 : Digit(d) = c

RECURSIVE ParseInt(_, _, _)
ParseInt(chars, k, acc) ==
    IF k > Len(chars) THEN acc
    ELSE ParseInt(chars, k + 1, acc * 10 + DigitValue(chars[k]))

RECURSIVE SplitCommas(_, _, _, _)
\* the comma-separated fields of chars[k..], cur being the field in progress
SplitCommas(chars, k, cur, done) ==
    IF k > Len(chars) THEN Append(done, cur)
    ELSE IF chars[k] = "," THEN SplitCommas(chars, k + 1, <<>>, Append(done, cur))
    ELSE SplitCommas(chars, k + 1, Append(cur, chars[k]), done)

\* `id IN ()` and an empty list element are syntax errors
InListOk(chars) == \A f \in {SplitCommas(chars, 1, <<>>, <<>>)[j] :
                                j \in 1..Len(SplitCommas(chars, 1, <<>>, <<>>))} :
                        /\ Len(f) > 0
                        /\ f # <<"-">>

FieldValue(f) == IF f[1] = "-" THEN 0 - ParseInt(f, 2, 0) ELSE ParseInt(f, 1, 0)

\* the set of integers an IN list denotes
InListValues(chars) ==
    LET fs == SplitCommas(chars, 1, <<>>, <<>>)
    IN  {FieldValue(fs[j]) : j \in 1..Len(fs)}

\* rows transaction t sees: the committed rows overlaid with its own writes
Visible(t) ==
    LET w == wset[t]
        live == (DOMAIN table \ DOMAIN w) \cup {i \in DOMAIN w : w[i] # Tombstone}
    IN  [i \in live |-> IF i \in DOMAIN w THEN w[i] ELSE table[i]]

\* a committed row another open transaction has updated or deleted is locked
\* until that transaction ends; a statement that needs the row waits
Locked(t, i) == i \in DOMAIN table /\ \E u \in Tasks \ {t} : i \in DOMAIN wset[u]

\* the table after COMMIT of a transaction with writes w
Applied(tbl, w) ==
    LET live == (DOMAIN tbl \cup DOMAIN w) \ {i \in DOMAIN w : w[i] = Tombstone}
    IN  [i \in live |-> IF i \in DOMAIN w THEN w[i] ELSE tbl[i]]

Written(w, i, v) == [j \in DOMAIN w \cup {i} |-> IF j = i THEN v ELSE w[j]]

WrittenAll(w, S, v) == [j \in DOMAIN w \cup S |-> IF j \in S THEN v ELSE w[j]]

RECURSIVE RowSeq(_, _)
\* the rows of tbl with id in S, by ascending id
RowSeq(tbl, S) ==
    IF S = {} THEN <<>>
    ELSE LET m == CHOOSE i \in S : \A j \in S : i <= j
         IN  <<Car(Some(m), tbl[m])>> \o RowSeq(tbl, S \ {m})

----------------------------------------------------------------------------
(* The Connection Provider: DataProvider::new and the Error Name Table     *)

\* the codes an outcome carries
ErrorCodes == {ReplyOk, DatabaseError, NotFoundError}

\* HashMap::<isize, String>::new()
NoErrors == [c \in {} |-> ""]

\* the rows SELECT id,error_name FROM public.error can return
ErrorRow(id, name) == [id |-> id, error_name |-> name]
ErrorItems ==
    SeqsUpTo({ErrorRow(c, n) : c \in ErrorCodes, n \in ErrorCodes}, MaxErrorRows)

RECURSIVE error_insert_all(_, _, _)
\* for item in error_items { error.insert(item.id as isize, item.error_name) }
error_insert_all(map, rows, k) ==
    IF k > Len(rows) THEN map
    ELSE error_insert_all(
            [c \in DOMAIN map \cup {rows[k].id} |->
                IF c = rows[k].id THEN rows[k].error_name ELSE map[c]],
            rows, k + 1)

\* the table with the name of every code, as an earlier start-up loaded it
AllErrors == [c \in ErrorCodes |-> c]

\* a provider that was constructed with every name loaded
ProviderReady == provider = "ready" /\ error = AllErrors /\ startup = {}

\* PgPool::new(&connection_string).await.unwrap(), Ok
PoolNewOk ==
    /\ provider = "pool"
    /\ provider' = "load"
    /\ UNCHANGED <<error, startup>>

\* PgPool::new(&connection_string).await.unwrap(), Err: the unwrap panics
PoolNewErr ==
    /\ provider = "pool"
    /\ provider' = "panicked"
    /\ startup' = startup \cup {"pool"}
    /\ UNCHANGED error

\* ErrorsLoadErr with .unwrap() where .unwrap_or(Vec::new()) stands
ErrorsLoadErrUnwrap ==
    /\ provider = "load"
    /\ provider' = "panicked"
    /\ startup' = startup \cup {"errors"}
    /\ UNCHANGED error

\* fetch_all(&mut pool).await, Ok(error_items): every row is inserted
ErrorsLoadOk ==
    /\ provider = "load"
    /\ \E error_items \in ErrorItems :
            error' = error_insert_all(NoErrors, error_items, 1)
    /\ provider' = "ready"
    /\ UNCHANGED startup

\* fetch_all(&mut pool).await, Err: .unwrap_or(Vec::new()), no row is inserted
ErrorsLoadErr ==
    /\ provider = "load"
    /\ error' = error_insert_all(NoErrors, <<>>, 1)
    /\ provider' = "ready"
    /\ startup' = startup \cup {"errors"}

----------------------------------------------------------------------------
(* main: the address the server listens on (main.rs)                       *)

ENV_HOST == "MY_BIN_HOST"
ENV_PORT == "PORT"
DEFAULT_HOST == <<"1", "2", "7", ".", "0", ".", "0", ".", "1">>
DEFAULT_PORT == 3456
\* u16::MAX
U16Max == 65535

\* What the environment holds for a variable, which is also what env::var
\* returns for it: Ok(value), Err(NotPresent) when the variable is not set,
\* Err(NotUnicode) when its value is not valid Unicode.
EnvVal(kind, val) == [kind |-> kind, val |-> val]
NotPresent == EnvVal("NotPresent", <<>>)
NotUnicode == EnvVal("NotUnicode", <<>>)
Present(val) == EnvVal("Ok", val)
is_ok(r) == r.kind = "Ok"

\* values MY_BIN_HOST is given: IPv4 literals, a host name, an octet out of
\* range, the empty string (no IPv6 literal)
HostTexts == {DEFAULT_HOST, <<"0", ".", "0", ".", "0", ".", "0">>,
              <<"l", "o", "c", "a", "l", "h", "o", "s", "t">>,
              <<"1", "0", ".", "0", ".", "0", ".", "2", "5", "6">>, <<>>}
\* values PORT is given
PortTexts == {<<"0">>, <<"8", "0">>, <<"8", "0", "8", "0">>, <<"6", "5", "5", "3", "5">>,
              <<"6", "5", "5", "3", "6">>, <<"+", "8", "0">>, <<"-", "1">>,
              <<"h", "t", "t", "p">>, <<" ", "8", "0">>, <<>>}

IsDigit(c) == \E d \in 0..9 : Digit(d) = c
AllDigits(chars) == \A k \in 1..Len(chars) : IsDigit(chars[k])

\* str::parse::<u16>: an optional "+", then at least one decimal digit and
\* nothing else, the value no greater than u16::MAX; Some(n) or None
parse_u16(chars) ==
    LET digits == IF Len(chars) > 0 /\ chars[1] = "+" THEN Tail(chars) ELSE chars
    IN  IF Len(digits) = 0 \/ ~AllDigits(digits) THEN None
        ELSE IF ParseInt(digits, 1, 0) > U16Max THEN None
        ELSE Some(ParseInt(digits, 1, 0))

\* the position of the first ":" of chars, 0 when it has none
FirstColon(chars) ==
    IF \E k \in 1..Len(chars) : chars[k] = ":"
    THEN CHOOSE k \in 1..Len(chars) :
            chars[k] = ":" /\ \A j \in 1..(k - 1) : chars[j] # ":"
    ELSE 0

\* an octet of a dotted quad: one to three digits, at most 255
OctetOk(f) == Len(f) \in 1..3 /\ AllDigits(f) /\ ParseInt(f, 1, 0) <= 255

\* Ipv4Addr: four octets separated by "."; Some(<<a, b, c, d>>) or None
parse_ipv4(chars) ==
    LET fs == SplitCommas([k \in 1..Len(chars) |->
                              IF chars[k] = "." THEN "," ELSE
                              IF chars[k] = "," THEN "?" ELSE chars[k]],
                          1, <<>>, <<>>)
    IN  IF Len(fs) = 4 /\ \A k \in 1..4 : OctetOk(fs[k])
        THEN Some([k \in 1..4 |-> ParseInt(fs[k], 1, 0)])
        ELSE None

SocketAddr(ip, p) == [ip |-> ip, port |-> p]

\* str::parse::<SocketAddr> of an address without brackets: an IPv4 address,
\* ":" and a port in decimal digits; Some(addr) or None
parse_socket_addr(chars) ==
    LET c == FirstColon(chars)
        h == SubSeq(chars, 1, c - 1)
        p == SubSeq(chars, c + 1, Len(chars))
    IN  IF c = 0 \/ parse_ipv4(h) = None THEN None
        ELSE IF Len(p) = 0 \/ ~AllDigits(p) THEN None
        ELSE IF ParseInt(p, 1, 0) > U16Max THEN None
        ELSE Some(SocketAddr(parse_ipv4(h)[1], ParseInt(p, 1, 0)))

\* format!("{}:{}", host, port)
format_addr(h, p) == h \o <<":">> \o to_string(p)

\* the frame of main: pc is the statement it is at ("host": line 16, "port":
\* line 23, "addr": line 30, "bind": line 38), `at` the statement it panicked
\* in, reads the variables env::var was called for, in order
MainFrame(at_pc, h, p, a, rs, at) ==
    [pc |-> at_pc, host |-> h, port |-> p, addr |-> a, reads |-> rs, at |-> at]

DefaultAddr == SocketAddr(<<127, 0, 0, 1>>, DEFAULT_PORT)

\* the server as it runs when neither variable was set at its start
MainServing ==
    /\ env = [v \in {ENV_HOST, ENV_PORT} |-> NotPresent]
    /\ main = MainFrame("serving", None, None, Some(DefaultAddr),
                        <<ENV_HOST, ENV_HOST>>, "")

\* let host: Option<String> = match env::var(ENV_HOST).is_ok() { ... }
ReadHost ==
    /\ main.pc = "host"
    /\ main' = IF is_ok(env[ENV_HOST])
               THEN [main EXCEPT !.host = Some(env[ENV_HOST].val),
                                 !.reads = @ \o <<ENV_HOST, ENV_HOST>>,
                                 !.pc = "port"]
               ELSE [main EXCEPT !.host = None,
                                 !.reads = @ \o <<ENV_HOST>>,
                                 !.pc = "port"]
    /\ UNCHANGED env

\* ReadPort with .unwrap_or(DEFAULT_PORT) where the two .unwrap() stand
ReadPortFallsBack ==
    /\ main.pc = "port"
    /\ main' = IF ~is_ok(env[ENV_HOST])
               THEN [main EXCEPT !.port = None,
                                 !.reads = @ \o <<ENV_HOST>>,
                                 !.pc = "addr"]
               ELSE IF is_ok(env[ENV_PORT])
               THEN [main EXCEPT !.port = Some(unwrap_or(
                                        parse_u16(env[ENV_PORT].val), DEFAULT_PORT)),
                                 !.reads = @ \o <<ENV_HOST, ENV_PORT>>,
                                 !.pc = "addr"]
               ELSE [main EXCEPT !.port = Some(DEFAULT_PORT),
                                 !.reads = @ \o <<ENV_HOST, ENV_PORT>>,
                                 !.pc = "addr"]
    /\ UNCHANGED env

\* let port: Option<u16> = match env::var(ENV_HOST).is_ok() {
\*     true => Some(env::var(ENV_PORT).unwrap().parse::<u16>().unwrap()), ... }
\* either unwrap panics on an Err
ReadPort ==
    /\ main.pc = "port"
    /\ main' = IF ~is_ok(env[ENV_HOST])
               THEN [main EXCEPT !.port = None,
                                 !.reads = @ \o <<ENV_HOST>>,
                                 !.pc = "addr"]
               ELSE IF is_ok(env[ENV_PORT])
                        /\ parse_u16(env[ENV_PORT].val) # None
               THEN [main EXCEPT !.port = Some(parse_u16(env[ENV_PORT].val)[1]),
                                 !.reads = @ \o <<ENV_HOST, ENV_PORT>>,
                                 !.pc = "addr"]
               ELSE [main EXCEPT !.reads = @ \o <<ENV_HOST, ENV_PORT>>,
                                 !.pc = "panicked", !.at = "port"]
    /\ UNCHANGED env

\* let addr = format!("{}:{}", host.unwrap_or(DEFAULT_HOST),
\*     port.unwrap_or(DEFAULT_PORT)).parse::<SocketAddr>().unwrap()
SelectAddr ==
    /\ main.pc = "addr"
    /\ LET text == format_addr(unwrap_or(main.host, DEFAULT_HOST),
                               unwrap_or(main.port, DEFAULT_PORT))
       IN  main' = IF parse_socket_addr(text) # None
                   THEN [main EXCEPT !.addr = parse_socket_addr(text),
                                     !.pc = "bind"]
                   ELSE [main EXCEPT !.pc = "panicked", !.at = "addr"]
    /\ UNCHANGED env

\* Server::bind(&addr): the listener is bound
BindOk ==
    /\ main.pc = "bind"
    /\ main' = [main EXCEPT !.pc = "serving"]
    /\ UNCHANGED env

\* Server::bind(&addr) panics when the address cannot be bound
BindErr ==
    /\ main.pc = "bind"
    /\ main' = [main EXCEPT !.pc = "panicked", !.at = "bind"]
    /\ UNCHANGED env

----------------------------------------------------------------------------
(* Initial states *)

\* the rows the table holds from earlier on
InitTable == [i \in {1, 2} |-> IF i = 1 THEN "Volvo" ELSE "Saab"]

\* the collection at rest on a table that holds the rows tbl
InitWith(tbl) ==
    /\ table = tbl
    /\ nextId = FirstId
    /\ pc = [t \in Tasks |-> "idle"]
    /\ op = [t \in Tasks |-> "get"]
    /\ items = [t \in Tasks |-> <<>>]
    /\ ids = [t \in Tasks |-> <<>>]
    /\ idx = [t \in Tasks |-> 0]
    /\ count = [t \in Tasks |-> 0]
    /\ wset = [t \in Tasks |-> EmptyTable]
    /\ tx = [t \in Tasks |-> "none"]
    /\ result = [t \in Tasks |-> NoResult]
    /\ failed = [t \in Tasks |-> {}]
    /\ hits = [t \in Tasks |-> <<>>]
    /\ before = table
    /\ trace = <<>>
    /\ helper = HelperIdle

InitCommon == InitWith(InitTable)

Init == InitCommon /\ ProviderReady /\ MainServing /\ script = <<>>

----------------------------------------------------------------------------
(* A call is made: the arguments are bound and the first round trip is     *)
(* awaited.                                                                *)

Req(o, its, is) == [op |-> o, items |-> its, ids |-> is]

Call(t, req) ==
    /\ pc[t] = "idle"
    /\ op' = [op EXCEPT ![t] = req.op]
    /\ items' = [items EXCEPT ![t] = req.items]
    /\ ids' = [ids EXCEPT ![t] = req.ids]
    /\ idx' = [idx EXCEPT ![t] = 0]
    /\ count' = [count EXCEPT ![t] = 0]
    /\ hits' = [hits EXCEPT ![t] = <<>>]
    /\ failed' = [failed EXCEPT ![t] = {}]
    /\ result' = [result EXCEPT ![t] = NoResult]
    /\ tx' = [tx EXCEPT ![t] = "none"]
    /\ wset' = [wset EXCEPT ![t] = EmptyTable]
    /\ pc' = [pc EXCEPT ![t] = IF req.op = "get" THEN "get" ELSE "begin"]
    /\ UNCHANGED <<table, nextId>>

\* The caller has taken the result; the call's locals are gone.
Return(t) ==
    /\ pc[t] = "done"
    /\ pc' = [pc EXCEPT ![t] = "idle"]
    /\ op' = [op EXCEPT ![t] = "get"]
    /\ items' = [items EXCEPT ![t] = <<>>]
    /\ ids' = [ids EXCEPT ![t] = <<>>]
    /\ idx' = [idx EXCEPT ![t] = 0]
    /\ count' = [count EXCEPT ![t] = 0]
    /\ hits' = [hits EXCEPT ![t] = <<>>]
    /\ failed' = [failed EXCEPT ![t] = {}]
    /\ result' = [result EXCEPT ![t] = NoResult]
    /\ tx' = [tx EXCEPT ![t] = "none"]
    /\ UNCHANGED <<table, nextId, wset>>

----------------------------------------------------------------------------
(* get *)

\* Fetched with the SELECT sent without its WHERE id IN (...) clause
FetchedAll(optIds) == RowSeq(table, DOMAIN table)

\* the rows a SELECT on the pool returns: it reads committed rows only
Fetched(optIds) ==
    IF Len(optIds) = 0 THEN RowSeq(table, DOMAIN table)
    ELSE RowSeq(table, DOMAIN table
                        \cap InListValues(get_select_in_exp(TableName, optIds[1]).inlist))

\* whether the database accepts get's SELECT
SelectOk(optIds) ==
    IF Len(optIds) = 0 THEN TRUE
    ELSE InListOk(get_select_in_exp(TableName, optIds[1]).inlist)

\* GetOk that takes the rows it returns out of the table
GetOkConsumes(t) ==
    /\ pc[t] = "get"
    /\ SelectOk(ids[t])
    /\ result' = [result EXCEPT ![t] = Rows(Fetched(ids[t]))]
    /\ table' = Without(table, {r.id[1] : r \in Range(Fetched(ids[t]))})
    /\ pc' = [pc EXCEPT ![t] = "done"]
    /\ UNCHANGED <<nextId, callVars, ids, idx, count, wset, tx, failed,
                   hits, driverVars, outerVars>>

GetOk(t) ==
    /\ pc[t] = "get"
    /\ SelectOk(ids[t])
    /\ result' = [result EXCEPT ![t] = Rows(Fetched(ids[t]))]
    /\ pc' = [pc EXCEPT ![t] = "done"]
    /\ UNCHANGED <<table, nextId, callVars, ids, idx, count, wset, tx, failed,
                   hits, driverVars, outerVars>>

\* fetch_all(...).await? : the error leaves get as Err(e)
GetErr(t) ==
    /\ pc[t] = "get"
    /\ result' = [result EXCEPT ![t] = RawErr]
    /\ failed' = [failed EXCEPT ![t] = @ \cup
            {IF SelectOk(ids[t]) THEN "fetch" ELSE "syntax"}]
    /\ pc' = [pc EXCEPT ![t] = "done"]
    /\ UNCHANGED <<table, nextId, callVars, ids, idx, count, wset, tx, hits,
                   driverVars, outerVars>>

----------------------------------------------------------------------------
(* pool.begin().await? *)

\* AfterBegin with remove leaving for the commit when `ids` is empty, the
\* DELETE not sent
AfterBeginSkipsEmpty(t) ==
    CASE op[t] = "add" -> IF Len(items[t]) = 0 THEN "commit" ELSE "insert"
      [] op[t] = "modify" -> IF Len(items[t]) = 0 THEN "commit" ELSE "update"
      [] OTHER -> IF Len(ids[t]) = 0 THEN "commit" ELSE "delete"

\* where the code goes once the transaction is open
AfterBegin(t) ==
    CASE op[t] = "add" -> IF Len(items[t]) = 0 THEN "commit" ELSE "insert"
      [] op[t] = "modify" -> IF Len(items[t]) = 0 THEN "commit" ELSE "update"
      [] OTHER -> "delete"

BeginOk(t) ==
    /\ pc[t] = "begin"
    /\ tx' = [tx EXCEPT ![t] = "open"]
    /\ pc' = [pc EXCEPT ![t] = AfterBegin(t)]
    /\ UNCHANGED <<table, nextId, callVars, ids, idx, count, wset, result,
                   failed, hits, driverVars, outerVars>>

BeginErr(t) ==
    /\ pc[t] = "begin"
    /\ result' = [result EXCEPT ![t] = RawErr]
    /\ failed' = [failed EXCEPT ![t] = @ \cup {"begin"}]
    /\ pc' = [pc EXCEPT ![t] = "done"]
    /\ UNCHANGED <<table, nextId, callVars, ids, idx, count, wset, tx, hits,
                   driverVars, outerVars>>

----------------------------------------------------------------------------
(* add: the for loop over items, one INSERT ... RETURNING id per item *)

\* last value the id sequence can hand out; nextval fails beyond it
MaxSeq == FirstId + MaxNew - 1

\* InsertOk with the new id put in front of `ids` instead of pushed at its end
InsertOkPrepend(t) ==
    /\ pc[t] = "insert"
    /\ nextId <= MaxSeq
    /\ LET item == items[t][idx[t] + 1]
       IN  /\ wset' = [wset EXCEPT ![t] = Written(@, nextId, item.car_name)]
           /\ ids' = [ids EXCEPT ![t] = <<nextId>> \o @]
    /\ nextId' = nextId + 1
    /\ idx' = [idx EXCEPT ![t] = @ + 1]
    /\ pc' = [pc EXCEPT ![t] = IF idx[t] + 1 = Len(items[t]) THEN "commit" ELSE "insert"]
    /\ UNCHANGED <<table, callVars, count, tx, result, failed, hits,
                   driverVars, outerVars>>

\* InsertOk with the INSERT run on the pool instead of on the transaction: the
\* row is committed at once
InsertOkOnPool(t) ==
    /\ pc[t] = "insert"
    /\ nextId <= MaxSeq
    /\ LET item == items[t][idx[t] + 1]
       IN  /\ table' = Written(table, nextId, item.car_name)
           /\ ids' = [ids EXCEPT ![t] = Append(@, nextId)]
    /\ nextId' = nextId + 1
    /\ idx' = [idx EXCEPT ![t] = @ + 1]
    /\ pc' = [pc EXCEPT ![t] = IF idx[t] + 1 = Len(items[t]) THEN "commit" ELSE "insert"]
    /\ UNCHANGED <<callVars, count, wset, tx, result, failed, hits,
                   driverVars, outerVars>>

\* Ok(rec) => ids.push(rec.id)
InsertOk(t) ==
    /\ pc[t] = "insert"
    /\ nextId <= MaxSeq
    /\ LET item == items[t][idx[t] + 1]
       IN  /\ wset' = [wset EXCEPT ![t] = Written(@, nextId, item.car_name)]
           /\ ids' = [ids EXCEPT ![t] = Append(@, nextId)]
    /\ nextId' = nextId + 1
    /\ idx' = [idx EXCEPT ![t] = @ + 1]
    /\ pc' = [pc EXCEPT ![t] = IF idx[t] + 1 = Len(items[t]) THEN "commit" ELSE "insert"]
    /\ UNCHANGED <<table, callVars, count, tx, result, failed, hits,
                   driverVars, outerVars>>

\* InsertErr that sends the INSERT of the same item again
InsertErrRetries(t) ==
    /\ pc[t] = "insert"
    /\ "insert" \notin failed[t]
    /\ failed' = [failed EXCEPT ![t] = @ \cup {"insert"}]
    /\ pc' = [pc EXCEPT ![t] = "insert"]
    /\ UNCHANGED <<table, nextId, callVars, ids, idx, count, wset, tx, result,
                   hits, driverVars, outerVars>>

\* InsertErr that leaves the loop for the commit instead of rolling back
InsertErrCommits(t) ==
    /\ pc[t] = "insert"
    /\ failed' = [failed EXCEPT ![t] = @ \cup {"insert"}]
    /\ pc' = [pc EXCEPT ![t] = "commit"]
    /\ UNCHANGED <<table, nextId, callVars, ids, idx, count, wset, tx, result,
                   hits, driverVars, outerVars>>

\* Err(e) => { tx.rollback().await.unwrap(); return Ok((DatabaseError, None)) }
InsertErr(t) ==
    /\ pc[t] = "insert"
    /\ failed' = [failed EXCEPT ![t] = @ \cup {"insert"}]
    /\ pc' = [pc EXCEPT ![t] = "rollback_db"]
    /\ UNCHANGED <<table, nextId, callVars, ids, idx, count, wset, tx, result,
                   hits, driverVars, outerVars>>

----------------------------------------------------------------------------
(* modify: the for loop over &items, one UPDATE per item, then the         *)
(* comparison of items.len() with count                                    *)

\* rows affected by UPDATE ... SET car_name = $1 WHERE id = $2 in t's transaction
Affected(t, key) == IF key \in DOMAIN Visible(t) THEN 1 ELSE 0

\* UpdateOk without the comparison of items.len() with count
UpdateOkNoVerify(t) ==
    /\ pc[t] = "update"
    /\ LET item == items[t][idx[t] + 1]
           key == unwrap_or(item.id, 0)
           ret == Affected(t, key)
           last == idx[t] + 1 = Len(items[t])
       IN  /\ ~Locked(t, key)
           /\ wset' = [wset EXCEPT ![t] =
                          IF ret = 1 THEN Written(@, key, item.car_name) ELSE @]
           /\ hits' = [hits EXCEPT ![t] = IF ret = 1 THEN Append(@, key) ELSE @]
           /\ count' = [count EXCEPT ![t] = @ + ret]
           /\ pc' = [pc EXCEPT ![t] = IF ~last THEN "update" ELSE "commit"]
    /\ idx' = [idx EXCEPT ![t] = @ + 1]
    /\ UNCHANGED <<table, nextId, callVars, ids, tx, result, failed,
                   driverVars, outerVars>>

\* UpdateOk with `count += 1`: statements counted instead of rows affected
UpdateOkCountsStatements(t) ==
    /\ pc[t] = "update"
    /\ LET item == items[t][idx[t] + 1]
           key == unwrap_or(item.id, 0)
           ret == Affected(t, key)
           last == idx[t] + 1 = Len(items[t])
       IN  /\ ~Locked(t, key)
           /\ wset' = [wset EXCEPT ![t] =
                          IF ret = 1 THEN Written(@, key, item.car_name) ELSE @]
           /\ hits' = [hits EXCEPT ![t] = IF ret = 1 THEN Append(@, key) ELSE @]
           /\ count' = [count EXCEPT ![t] = @ + 1]
           /\ pc' = [pc EXCEPT ![t] =
                        IF ~last THEN "update"
                        ELSE IF Len(items[t]) = count[t] + 1 THEN "commit"
                        ELSE "rollback_nf"]
    /\ idx' = [idx EXCEPT ![t] = @ + 1]
    /\ UNCHANGED <<table, nextId, callVars, ids, tx, result, failed,
                   driverVars, outerVars>>

\* Ok(ret) => count += ret
UpdateOk(t) ==
    /\ pc[t] = "update"
    /\ LET item == items[t][idx[t] + 1]
           key == unwrap_or(item.id, 0)
           ret == Affected(t, key)
           last == idx[t] + 1 = Len(items[t])
       IN  /\ ~Locked(t, key)
           /\ wset' = [wset EXCEPT ![t] =
                          IF ret = 1 THEN Written(@, key, item.car_name) ELSE @]
           /\ hits' = [hits EXCEPT ![t] = IF ret = 1 THEN Append(@, key) ELSE @]
           /\ count' = [count EXCEPT ![t] = @ + ret]
           /\ pc' = [pc EXCEPT ![t] =
                        IF ~last THEN "update"
                        ELSE IF Len(items[t]) = count[t] + ret THEN "commit"
                        ELSE "rollback_nf"]
    /\ idx' = [idx EXCEPT ![t] = @ + 1]
    /\ UNCHANGED <<table, nextId, callVars, ids, tx, result, failed,
                   driverVars, outerVars>>

\* UpdateErr that takes the failed statement for one that affected no row and
\* goes on with the loop
UpdateErrSkips(t) ==
    /\ pc[t] = "update"
    /\ failed' = [failed EXCEPT ![t] = @ \cup {"update"}]
    /\ idx' = [idx EXCEPT ![t] = @ + 1]
    /\ pc' = [pc EXCEPT ![t] =
                IF idx[t] + 1 # Len(items[t]) THEN "update"
                ELSE IF Len(items[t]) = count[t] THEN "commit"
                ELSE "rollback_nf"]
    /\ UNCHANGED <<table, nextId, callVars, ids, count, wset, tx, result,
                   hits, driverVars, outerVars>>

\* Err(e) => { tx.rollback().await?; return Ok(DatabaseError) }
UpdateErr(t) ==
    /\ pc[t] = "update"
    /\ failed' = [failed EXCEPT ![t] = @ \cup {"update"}]
    /\ pc' = [pc EXCEPT ![t] = "rollback_db"]
    /\ UNCHANGED <<table, nextId, callVars, ids, idx, count, wset, tx, result,
                   hits, driverVars, outerVars>>

----------------------------------------------------------------------------
(* remove: one DELETE ... WHERE id IN (...), then the comparison of        *)
(* ids.len() with the rows deleted                                         *)

\* DeleteOk that commits whatever the number of rows deleted
DeleteOkNoVerify(t) ==
    /\ pc[t] = "delete"
    /\ LET stmt == get_delete_in_exp(TableName, ids[t])
           rows == DOMAIN Visible(t) \cap InListValues(stmt.inlist)
       IN  /\ InListOk(stmt.inlist)
           /\ \A i \in rows : ~Locked(t, i)
           /\ wset' = [wset EXCEPT ![t] = WrittenAll(@, rows, Tombstone)]
           /\ pc' = [pc EXCEPT ![t] = "commit"]
    /\ UNCHANGED <<table, nextId, callVars, ids, idx, count, tx, result, failed,
                   hits, driverVars, outerVars>>

\* DeleteOk that compares the rows deleted with the number of distinct ids
DeleteOkDistinct(t) ==
    /\ pc[t] = "delete"
    /\ LET stmt == get_delete_in_exp(TableName, ids[t])
           rows == DOMAIN Visible(t) \cap InListValues(stmt.inlist)
           ret == Cardinality(rows)
       IN  /\ InListOk(stmt.inlist)
           /\ \A i \in rows : ~Locked(t, i)
           /\ wset' = [wset EXCEPT ![t] = WrittenAll(@, rows, Tombstone)]
           /\ pc' = [pc EXCEPT ![t] =
                        IF Cardinality({ids[t][k] : k \in 1..Len(ids[t])}) = ret
                        THEN "commit" ELSE "rollback_nf"]
    /\ UNCHANGED <<table, nextId, callVars, ids, idx, count, tx, result, failed,
                   hits, driverVars, outerVars>>

\* Ok(ret) => if ids.len() == ret { commit } else { rollback; NotFoundError }
DeleteOk(t) ==
    /\ pc[t] = "delete"
    /\ LET stmt == get_delete_in_exp(TableName, ids[t])
           rows == DOMAIN Visible(t) \cap InListValues(stmt.inlist)
           ret == Cardinality(rows)
       IN  /\ InListOk(stmt.inlist)
           /\ \A i \in rows : ~Locked(t, i)
           /\ wset' = [wset EXCEPT ![t] = WrittenAll(@, rows, Tombstone)]
           /\ pc' = [pc EXCEPT ![t] =
                        IF Len(ids[t]) = ret THEN "commit" ELSE "rollback_nf"]
    /\ UNCHANGED <<table, nextId, callVars, ids, idx, count, tx, result, failed,
                   hits, driverVars, outerVars>>

\* Err(e) => { tx.rollback().await?; Ok(DatabaseError) }
DeleteErr(t) ==
    /\ pc[t] = "delete"
    /\ failed' = [failed EXCEPT ![t] = @ \cup
            {IF InListOk(get_delete_in_exp(TableName, ids[t]).inlist)
             THEN "delete" ELSE "syntax"}]
    /\ pc' = [pc EXCEPT ![t] = "rollback_db"]
    /\ UNCHANGED <<table, nextId, callVars, ids, idx, count, wset, tx, result,
                   hits, driverVars, outerVars>>

----------------------------------------------------------------------------
(* tx.commit().await *)

\* Ok(_): the writes of the transaction become the committed rows
CommitOk(t) ==
    /\ pc[t] = "commit"
    /\ table' = Applied(table, wset[t])
    /\ wset' = [wset EXCEPT ![t] = EmptyTable]
    /\ tx' = [tx EXCEPT ![t] = "committed"]
    /\ result' = [result EXCEPT ![t] =
                    IF op[t] = "add" THEN AddOutcome(ReplyOk, Some(ids[t]))
                    ELSE Outcome(ReplyOk)]
    /\ pc' = [pc EXCEPT ![t] = "done"]
    /\ UNCHANGED <<nextId, callVars, ids, idx, count, failed, hits,
                   driverVars, outerVars>>

\* CommitErr without its `return`: the code goes on to Ok(ReplyOk)
CommitErrFallsThrough(t) ==
    /\ pc[t] = "commit"
    /\ wset' = [wset EXCEPT ![t] = EmptyTable]
    /\ tx' = [tx EXCEPT ![t] = "commit_failed"]
    /\ failed' = [failed EXCEPT ![t] = @ \cup {"commit"}]
    /\ result' = [result EXCEPT ![t] =
                    IF op[t] = "add" THEN AddOutcome(ReplyOk, Some(ids[t]))
                    ELSE Outcome(ReplyOk)]
    /\ pc' = [pc EXCEPT ![t] = "done"]
    /\ UNCHANGED <<table, nextId, callVars, ids, idx, count, hits, driverVars,
                   outerVars>>

\* Err(e) => return Ok(DatabaseError): nothing of the transaction is committed
CommitErr(t) ==
    /\ pc[t] = "commit"
    /\ wset' = [wset EXCEPT ![t] = EmptyTable]
    /\ tx' = [tx EXCEPT ![t] = "commit_failed"]
    /\ failed' = [failed EXCEPT ![t] = @ \cup {"commit"}]
    /\ result' = [result EXCEPT ![t] =
                    IF op[t] = "add" THEN AddOutcome(DatabaseError, None)
                    ELSE Outcome(DatabaseError)]
    /\ pc' = [pc EXCEPT ![t] = "done"]
    /\ UNCHANGED <<table, nextId, callVars, ids, idx, count, hits,
                   driverVars, outerVars>>

----------------------------------------------------------------------------
(* tx.rollback().await *)

\* the error code the call reports once the rollback went through
RollbackCode(t) == IF pc[t] = "rollback_nf" THEN NotFoundError ELSE DatabaseError

\* RollbackOk with tx.commit() called where tx.rollback() stands
RollbackOkCommits(t) ==
    /\ pc[t] \in {"rollback_db", "rollback_nf"}
    /\ table' = Applied(table, wset[t])
    /\ wset' = [wset EXCEPT ![t] = EmptyTable]
    /\ tx' = [tx EXCEPT ![t] = "rolledback"]
    /\ result' = [result EXCEPT ![t] =
                    IF op[t] = "add" THEN AddOutcome(RollbackCode(t), None)
                    ELSE Outcome(RollbackCode(t))]
    /\ pc' = [pc EXCEPT ![t] = "done"]
    /\ UNCHANGED <<nextId, callVars, ids, idx, count, failed, hits,
                   driverVars, outerVars>>

RollbackOk(t) ==
    /\ pc[t] \in {"rollback_db", "rollback_nf"}
    /\ wset' = [wset EXCEPT ![t] = EmptyTable]
    /\ tx' = [tx EXCEPT ![t] = "rolledback"]
    /\ result' = [result EXCEPT ![t] =
                    IF op[t] = "add" THEN AddOutcome(RollbackCode(t), None)
                    ELSE Outcome(RollbackCode(t))]
    /\ pc' = [pc EXCEPT ![t] = "done"]
    /\ UNCHANGED <<table, nextId, callVars, ids, idx, count, failed, hits,
                   driverVars, outerVars>>

\* add: .unwrap() panics; modify, remove: `?` returns Err(e).  The transaction
\* is dropped without COMMIT, so the database discards its writes.
RollbackErr(t) ==
    /\ pc[t] \in {"rollback_db", "rollback_nf"}
    /\ wset' = [wset EXCEPT ![t] = EmptyTable]
    /\ tx' = [tx EXCEPT ![t] = "rollback_failed"]
    /\ failed' = [failed EXCEPT ![t] = @ \cup {"rollback"}]
    /\ result' = [result EXCEPT ![t] = IF op[t] = "add" THEN Panic ELSE RawErr]
    /\ pc' = [pc EXCEPT ![t] = "done"]
    /\ UNCHANGED <<table, nextId, callVars, ids, idx, count, hits,
                   driverVars, outerVars>>

----------------------------------------------------------------------------
(* Cancellation: the task that awaits the call drops its future while the  *)
(* call is suspended at a round trip.  No further line of the function     *)
(* runs; its locals, `tx` among them, are dropped.                         *)

AwaitPoints == {"get", "begin", "insert", "update", "delete", "commit",
                "rollback_db", "rollback_nf"}

\* What can have become of the transaction when the call is dropped at pc[t].
\* At a statement the function has called neither commit nor rollback: the
\* code has no cleanup of its own, and whether a ROLLBACK is still sent is up
\* to the destructor of the transaction object ("dropped": none was).  At
\* tx.commit() / tx.rollback() the statement was sent or not.
CancelFates(t) ==
    CASE pc[t] \in {"insert", "update", "delete"} -> {"rolledback", "dropped"}
      [] pc[t] = "commit" -> {"committed", "dropped"}
      [] pc[t] \in {"rollback_db", "rollback_nf"} -> {"rolledback", "dropped"}
      [] OTHER -> {"none"}

Cancel(t) ==
    /\ pc[t] \in AwaitPoints
    /\ \E fate \in CancelFates(t) :
        /\ tx' = [tx EXCEPT ![t] = fate]
        /\ table' = IF fate = "committed" THEN Applied(table, wset[t]) ELSE table
    /\ wset' = [wset EXCEPT ![t] = EmptyTable]
    /\ result' = [result EXCEPT ![t] = Cancelled]
    /\ pc' = [pc EXCEPT ![t] = "done"]
    /\ UNCHANGED <<nextId, callVars, ids, idx, count, failed, hits,
                   driverVars, outerVars>>

----------------------------------------------------------------------------
(* Specifications *)

\* one step of a call that is under way
Step(t) ==
    \/ GetOk(t) \/ GetErr(t)
    \/ BeginOk(t) \/ BeginErr(t)
    \/ InsertOk(t) \/ InsertErr(t)
    \/ UpdateOk(t) \/ UpdateErr(t)
    \/ DeleteOk(t) \/ DeleteErr(t)
    \/ CommitOk(t) \/ CommitErr(t)
    \/ RollbackOk(t) \/ RollbackErr(t)

OptIds == {Some(i) : i \in ItemIds}
AddItems == SeqsUpTo({Car(None, n) : n \in Names}, MaxLen)
ModifyItems == SeqsUpTo({Car(o, n) : o \in OptIds, n \in Names}, MaxLen)
IdLists == SeqsUpTo(ReqIds, MaxLen)

Requests ==
    {Req("add", its, <<>>) : its \in AddItems}
    \cup {Req("modify", its, <<>>) : its \in ModifyItems}
    \cup {Req("remove", <<>>, l) : l \in IdLists}
    \cup {Req("get", <<>>, o) : o \in {None} \cup {Some(l) : l \in IdLists}}

\* one client calling the collection, one call after the other
ClientCall ==
    \E req \in Requests :
        /\ Call(Main, req)
        /\ before' = table
        /\ UNCHANGED <<script, trace>>
    /\ UNCHANGED outerVars

ClientReturn ==
    /\ Return(Main)
    /\ before' = table
    /\ UNCHANGED <<script, trace>>
    /\ UNCHANGED outerVars

Next == ClientCall \/ Step(Main) \/ ClientReturn

Spec == Init /\ [][Next]_vars

\* the same client, whose calls may be cancelled at any await
NextCancel == ClientCall \/ Step(Main) \/ ClientReturn \/ Cancel(Main)

SpecCancel == Init /\ [][NextCancel]_vars

----------------------------------------------------------------------------
(* The concrete scenario: one client making five calls in a row, on a      *)
(* table whose sequence generates 10 and 11 next.                          *)

\* the calls of the scenario; a step with several requests stands for any of them
ScenarioScript ==
    << {Req("add", <<Car(None, "Volvo"), Car(None, "Saab")>>, <<>>)},
       {Req("modify", <<Car(Some(10), "Volvo V60")>>, <<>>)},
       {Req("modify", its, <<>>) :
            its \in {<<Car(Some(999), n), Car(Some(10), m)>> : n, m \in Names}
                \cup {<<Car(Some(10), m), Car(Some(999), n)>> : n, m \in Names}},
       {Req("remove", <<>>, <<10, 11>>)},
       {Req("get", <<>>, Some(<<10, 11>>))} >>

InitScenario ==
    InitCommon /\ ProviderReady /\ MainServing /\ script = ScenarioScript

ScriptedCall ==
    /\ script # <<>>
    /\ \E req \in Head(script) : Call(Main, req)
    /\ script' = Tail(script)
    /\ before' = table
    /\ UNCHANGED trace
    /\ UNCHANGED outerVars

\* the result of the call that returns, the round trips of it that failed and
\* the table it leaves are noted
ScriptedReturn ==
    /\ Return(Main)
    /\ trace' = Append(trace, [result |-> result[Main], failed |-> failed[Main],
                               table |-> table])
    /\ UNCHANGED <<before, script>>
    /\ UNCHANGED outerVars

NextScenario == ScriptedCall \/ Step(Main) \/ ScriptedReturn

SpecScenario == InitScenario /\ [][NextScenario]_vars

\* the calls of the scenario that have ended so far, in order
History ==
    IF pc[Main] = "done"
    THEN Append(trace, [result |-> result[Main], failed |-> failed[Main],
                        table |-> table])
    ELSE trace

\* no round trip of the first k calls failed
CleanUpTo(k) == \A j \in 1..k : History[j].failed = {}

HasRow(tbl, i, name) == i \in DOMAIN tbl /\ tbl[i] = name

\* what the scenario says of its k-th call, e being what the call left
ScenarioStep(k, e) ==
    CASE k = 1 ->
            /\ e.result.kind = "outcome" /\ e.result.code = ReplyOk
            /\ e.result.ids = Some(<<10, 11>>)
            /\ HasRow(e.table, 10, "Volvo") /\ HasRow(e.table, 11, "Saab")
      [] k = 2 ->
            /\ e.result.kind = "outcome" /\ e.result.code = ReplyOk
            /\ HasRow(e.table, 10, "Volvo V60") /\ HasRow(e.table, 11, "Saab")
      [] k = 3 ->
            /\ e.result.kind = "outcome" /\ e.result.code = NotFoundError
            /\ HasRow(e.table, 10, "Volvo V60") /\ HasRow(e.table, 11, "Saab")
            /\ e.table = History[2].table
      [] k = 4 ->
            /\ e.result.kind = "outcome" /\ e.result.code = ReplyOk
            /\ 10 \notin DOMAIN e.table /\ 11 \notin DOMAIN e.table
      [] OTHER ->
            /\ e.result.kind = "rows"
            /\ e.result.rows = <<>>

(* C9: in the run add [Volvo, Saab]; modify id 10 to "Volvo V60"; modify of   *)
(* ids 999 and 10; remove [10, 11]; get([10, 11]), started where the next     *)
(* generated ids are 10 and 11, each call whose round trips and those of the  *)
(* calls before it all succeeded ends as the scenario says: Success with      *)
(* [10, 11]; Success; NotFoundError with id 10 still named "Volvo V60";       *)
(* Success; the empty sequence.                                               *)
C9_Scenario ==
    \A k \in 1..Len(History) : CleanUpTo(k) => ScenarioStep(k, History[k])

\* the five calls have ended and none of their round trips failed
C9_Witness == Len(History) = 5 /\ CleanUpTo(5) /\ pc[Main] = "done"

----------------------------------------------------------------------------
(* Properties of one call, stated on the state in which the call of the    *)
(* single client (Spec) has ended.                                         *)

\* the call of task t has ended (returned or panicked)
Ended(t) == pc[t] = "done"
Reported(t, code) == result[t].kind = "outcome" /\ result[t].code = code
IsSuccess(t) == Reported(t, ReplyOk)
IsFailure(t) == result[t].kind = "outcome" /\ result[t].code # ReplyOk

Distinct(s) == Cardinality(Range(s)) = Len(s)
Occurrences(s, x) == Cardinality({k \in 1..Len(s) : s[k] = x})
\* the identifier each item of a modify batch is keyed by
Keys(its) == [k \in 1..Len(its) |-> unwrap_or(its[k].id, 0)]
\* the name the last item of its keyed by key carries
LastName(its, key) ==
    its[CHOOSE k \in 1..Len(its) :
            /\ Keys(its)[k] = key
            /\ \A j \in 1..Len(its) : Keys(its)[j] = key => j <= k].car_name

\* round trips that fail because of the database's condition, as opposed to
\* "syntax": a statement the database rejects whenever it is sent
EnvFaults == {"fetch", "begin", "insert", "update", "delete", "commit", "rollback"}
Healthy(t) == failed[t] \cap EnvFaults = {}

(* C1: when an insert of add fails (at any position i of a batch of N >= 1    *)
(* items), then once add has ended the table holds none of the N rows: it is  *)
(* the table of before the call and none of the ids generated for the first   *)
(* i-1 items is in it; and the outcome add returns is (DatabaseError, None).  *)
(* add returns unless the rollback fails as well, in which case it panics.    *)
C1_AddAtomic ==
    (Ended(Main) /\ op[Main] = "add" /\ "insert" \in failed[Main]) =>
        /\ table = before
        /\ \A k \in 1..Len(ids[Main]) : ids[Main][k] \notin DOMAIN table
        /\ "rollback" \notin failed[Main] =>
                /\ Reported(Main, DatabaseError)
                /\ result[Main].ids = None
        /\ result[Main].kind \in {"outcome", "panic"}
        /\ result[Main].kind = "outcome" => Reported(Main, DatabaseError)

\* the second insert of a batch of two failed: one row was already inserted
C1_Witness ==
    /\ Ended(Main) /\ op[Main] = "add" /\ "insert" \in failed[Main]
    /\ Len(items[Main]) = 2 /\ Len(ids[Main]) = 1
    /\ Reported(Main, DatabaseError)

(* C2: when modify is given a batch in which at least one identifier matches  *)
(* no row, then once modify has ended no row of the table has changed, and,   *)
(* when every round trip of the call succeeded, the outcome is NotFoundError  *)
(* and the transaction was rolled back.                                       *)
C2_ModifyAllOrNothing ==
    (/\ Ended(Main) /\ op[Main] = "modify"
     /\ \E k \in 1..Len(items[Main]) : Keys(items[Main])[k] \notin DOMAIN before) =>
        /\ table = before
        /\ failed[Main] = {} =>
                /\ Reported(Main, NotFoundError)
                /\ tx[Main] = "rolledback"

\* a batch of two: one item matched and was updated inside the transaction
C2_Witness ==
    /\ Ended(Main) /\ op[Main] = "modify" /\ Len(items[Main]) = 2
    /\ Len(hits[Main]) = 1
    /\ before[hits[Main][1]] # LastName(items[Main], hits[Main][1])
    /\ \E k \in 1..2 : Keys(items[Main])[k] \notin DOMAIN before
    /\ Reported(Main, NotFoundError)

\* the two halves of the remove property, for lists of at least minLen ids
RemoveExact(minLen) ==
    (Ended(Main) /\ op[Main] = "remove" /\ Healthy(Main)
        /\ Len(ids[Main]) >= minLen) =>
        /\ (Distinct(ids[Main]) /\ Range(ids[Main]) \subseteq DOMAIN before) =>
                /\ IsSuccess(Main)
                /\ table = Without(before, Range(ids[Main]))
        /\ ~(Range(ids[Main]) \subseteq DOMAIN before) =>
                /\ Reported(Main, NotFoundError)
                /\ table = before

(* C3 as claimed: removing K distinct identifiers that all exist deletes      *)
(* exactly those K rows, leaves the others unchanged and reports Success; a   *)
(* list with an identifier that does not exist deletes nothing and reports    *)
(* NotFoundError (the database being in working order).                       *)
C3_RemoveExact_AsClaimed == RemoveExact(0)

(* C3 amended: the same for K >= 1.  (For the empty list the statement is     *)
(* DELETE ... WHERE id IN (), which the database rejects.)                    *)
C3_RemoveExact == RemoveExact(1)

\* two rows removed at once, and another row left
C3_Witness ==
    /\ Ended(Main) /\ op[Main] = "remove" /\ IsSuccess(Main)
    /\ Len(ids[Main]) = 2 /\ Distinct(ids[Main])
    /\ table # EmptyTable
    /\ table = Without(before, Range(ids[Main]))

\* the transaction ended without having been committed: by ROLLBACK, or by a
\* COMMIT that failed
Aborted(t) == tx[t] \in {"rolledback", "commit_failed"}

(* C4 as claimed: whatever the results of begin, statement, commit and        *)
(* rollback, an add, modify or remove call reports a Failure outcome iff its  *)
(* transaction was rolled back and Success iff it was committed, and a call   *)
(* that opened a transaction ends with it committed (Success) or rolled back  *)
(* (Failure).                                                                 *)
C4_OutcomeIffTerminal ==
    (Ended(Main) /\ op[Main] \in {"add", "modify", "remove"}) =>
        /\ IsFailure(Main) <=> Aborted(Main)
        /\ IsSuccess(Main) <=> tx[Main] = "committed"
        /\ tx[Main] # "none" => tx[Main] = "committed" \/ Aborted(Main)
        /\ tx[Main] # "none" => IsSuccess(Main) \/ IsFailure(Main)

(* C5 as claimed: every database failure inside get, add, modify and remove   *)
(* is turned into an outcome with an error code; a call never ends with the   *)
(* raw error or a panic.                                                      *)
C5_FailuresBecomeOutcomes ==
    Ended(Main) =>
        /\ result[Main].kind \in {"outcome", "rows"}
        /\ failed[Main] # {} => IsFailure(Main)

(* C6: when add reports Success, the identifier list it returns is as long    *)
(* as items, its k-th identifier is the id of the row created for the k-th    *)
(* item (a new row, carrying that item's name), and fetching the k-th         *)
(* identifier returns exactly that row.                                       *)
C6_AddOrder ==
    (Ended(Main) /\ op[Main] = "add" /\ IsSuccess(Main)) =>
        /\ Len(result[Main].ids) = 1
        /\ LET rids == result[Main].ids[1]
           IN  /\ Len(rids) = Len(items[Main])
               /\ Distinct(rids)
               /\ \A k \in 1..Len(rids) :
                    /\ rids[k] \notin DOMAIN before
                    /\ rids[k] \in DOMAIN table
                    /\ table[rids[k]] = items[Main][k].car_name
                    /\ Fetched(Some(<<rids[k]>>))
                            = <<Car(Some(rids[k]), items[Main][k].car_name)>>

\* two items with different names were added
C6_Witness ==
    /\ Ended(Main) /\ op[Main] = "add" /\ IsSuccess(Main)
    /\ Len(items[Main]) = 2
    /\ items[Main][1].car_name # items[Main][2].car_name

(* C7 as claimed: when modify reports Success, every identifier in items      *)
(* existed and its row was updated exactly once by the call, also when an     *)
(* identifier appears in several items.                                       *)
C7_UpdatedOnce_AsClaimed ==
    (Ended(Main) /\ op[Main] = "modify" /\ IsSuccess(Main)) =>
        \A k \in 1..Len(items[Main]) :
            /\ Keys(items[Main])[k] \in DOMAIN before
            /\ Occurrences(hits[Main], Keys(items[Main])[k]) = 1

(* C7 amended: when modify reports Success, every identifier in items existed *)
(* and every item's update affected exactly one row, the row of its           *)
(* identifier: a row is updated once per item that names it and ends with the *)
(* name of the last such item; no other row changes.                          *)
C7_EveryItemHit ==
    (Ended(Main) /\ op[Main] = "modify" /\ IsSuccess(Main)) =>
        /\ \A k \in 1..Len(items[Main]) : Keys(items[Main])[k] \in DOMAIN before
        /\ Len(hits[Main]) = Len(items[Main])
        /\ \A k \in 1..Len(items[Main]) : hits[Main][k] = Keys(items[Main])[k]
        /\ count[Main] = Len(items[Main])
        /\ DOMAIN table = DOMAIN before
        /\ \A i \in DOMAIN table :
                table[i] = IF i \in Range(hits[Main])
                           THEN LastName(items[Main], i) ELSE before[i]

\* the same identifier in two items, with different names
C7_Witness ==
    /\ Ended(Main) /\ op[Main] = "modify" /\ IsSuccess(Main)
    /\ Len(items[Main]) = 2
    /\ Keys(items[Main])[1] = Keys(items[Main])[2]
    /\ items[Main][1].car_name # items[Main][2].car_name

(* C8: remove of a list with a duplicated identifier, every identifier of     *)
(* which exists, deletes no row; when every round trip of the call succeeded  *)
(* it reports NotFoundError and its transaction was rolled back.              *)
C8_RemoveDuplicates ==
    (Ended(Main) /\ op[Main] = "remove" /\ ~Distinct(ids[Main])
        /\ Range(ids[Main]) \subseteq DOMAIN before) =>
        /\ table = before
        /\ failed[Main] = {} =>
                /\ Reported(Main, NotFoundError)
                /\ tx[Main] = "rolledback"

C8_Witness ==
    /\ Ended(Main) /\ op[Main] = "remove" /\ ~Distinct(ids[Main])
    /\ Range(ids[Main]) \subseteq DOMAIN before
    /\ Reported(Main, NotFoundError) /\ tx[Main] = "rolledback"

----------------------------------------------------------------------------
(* Concurrent clients: the tasks call the same collection, their round     *)
(* trips interleaving at will.                                             *)

ConcRequests ==
    {Req("add", <<Car(None, "Volvo")>>, <<>>),
     Req("add", <<Car(None, "Saab"), Car(None, "Volvo")>>, <<>>),
     Req("modify", <<Car(Some(1), "Saab"), Car(Some(2), "Volvo")>>, <<>>),
     Req("modify", <<Car(Some(2), "Saab"), Car(Some(1), "Saab")>>, <<>>),
     Req("modify", <<Car(Some(1), "Saab"), Car(Some(MissingId), "Saab")>>, <<>>),
     Req("modify", <<Car(Some(FirstId), "Saab")>>, <<>>),
     Req("remove", <<>>, <<1, 2>>),
     Req("remove", <<>>, <<2>>),
     Req("remove", <<>>, <<1, MissingId>>),
     Req("get", <<>>, None)}

InitConc ==
    /\ InitCommon
    /\ ProviderReady
    /\ MainServing
    /\ script = [k \in 1..MaxCalls |-> ConcRequests]

ConcCall(t) ==
    /\ script # <<>>
    /\ \E req \in Head(script) : Call(t, req)
    /\ script' = Tail(script)
    /\ UNCHANGED <<before, trace>>
    /\ UNCHANGED outerVars

\* what is known of a call once it has ended
Ending(t) == [op |-> op[t], items |-> items[t], ids |-> ids[t], result |-> result[t]]

ConcReturn(t) ==
    /\ Return(t)
    /\ trace' = Append(trace, Ending(t))
    /\ UNCHANGED <<before, script>>
    /\ UNCHANGED outerVars

NextConc == \E t \in Tasks : ConcCall(t) \/ Step(t) \/ ConcReturn(t)

SpecConc == InitConc /\ [][NextConc]_vars

\* the table after the whole of call c is applied to tbl, c being run alone:
\* add creates one row per item under the ids it returned, modify renames the
\* row of every item, remove deletes the row of every id
SerialEffect(tbl, c) ==
    CASE c.op = "add" ->
            LET rids == c.result.ids[1]
            IN  [i \in DOMAIN tbl \cup Range(rids) |->
                    IF i \in Range(rids)
                    THEN c.items[CHOOSE k \in 1..Len(rids) : rids[k] = i].car_name
                    ELSE tbl[i]]
      [] c.op = "modify" ->
            [i \in DOMAIN tbl |->
                IF i \in Range(Keys(c.items)) THEN LastName(c.items, i) ELSE tbl[i]]
      [] OTHER -> Without(tbl, Range(c.ids))

\* whether call c, run alone on tbl, succeeds
SerialOk(tbl, c) ==
    CASE c.op = "add" -> Range(c.result.ids[1]) \cap DOMAIN tbl = {}
      [] c.op = "modify" -> Range(Keys(c.items)) \subseteq DOMAIN tbl
      [] OTHER -> Distinct(c.ids) /\ Range(c.ids) \subseteq DOMAIN tbl

RECURSIVE SerialRun(_, _, _, _)
\* calls[order[k]], calls[order[k+1]], ... run one after the other from tbl
SerialRun(tbl, calls, order, k) ==
    IF k > Len(order) THEN [ok |-> TRUE, tbl |-> tbl]
    ELSE IF ~SerialOk(tbl, calls[order[k]]) THEN [ok |-> FALSE, tbl |-> tbl]
    ELSE SerialRun(SerialEffect(tbl, calls[order[k]]), calls, order, k + 1)

RECURSIVE EndedCalls(_)
\* the calls of the tasks in S that have ended and not yet returned
EndedCalls(S) ==
    IF S = {} THEN <<>>
    ELSE LET t == CHOOSE u \in S : TRUE
         IN  (IF pc[t] = "done" THEN <<Ending(t)>> ELSE <<>>) \o EndedCalls(S \ {t})

SuccessOf(c) == c.result.kind = "outcome" /\ c.result.code = ReplyOk

\* the calls that have reported Success so far
Successes == SelectSeq(trace \o EndedCalls(Tasks), SuccessOf)

Orders(n) == {f \in [1..n -> 1..n] : \A i, j \in 1..n : f[i] = f[j] => i = j}

(* C10: whatever the interleaving of the add, modify and remove calls of the  *)
(* tasks, the committed table is at every moment the table got by running, in *)
(* some order and one after the other, the calls that have reported Success,  *)
(* each applied in whole, and nothing else: no part of a batch that is still  *)
(* under way or that reported a failure is in it.                             *)
C10_CommittedTableIsSerial ==
    \E order \in Orders(Len(Successes)) :
        LET run == SerialRun(before, Successes, order, 1)
        IN  run.ok /\ run.tbl = table

\* a batch of two was committed by one task while the other task has
\* uncommitted writes
C10_Witness ==
    \E t, u \in Tasks :
        /\ t # u
        /\ pc[t] = "done" /\ IsSuccess(t) /\ Len(items[t]) + Len(ids[t]) >= 2
        /\ wset[u] # EmptyTable

----------------------------------------------------------------------------
(* Exit paths *)

\* the ways a call ends: Ok(..) returned, Err(e) propagated by `?`, panic,
\* the future dropped
ExitPaths == {"outcome", "rows", "err", "panic", "cancelled"}

(* C11 as claimed: on every exit path of add, modify and remove (return,      *)
(* early return, propagated error, panic, cancellation at an await) the       *)
(* transaction the call opened has been committed or rolled back.             *)
C11_EveryExitCleansUp ==
    (Ended(Main) /\ op[Main] \in {"add", "modify", "remove"}) =>
        /\ result[Main].kind \in ExitPaths
        /\ tx[Main] # "none" => tx[Main] = "committed" \/ Aborted(Main)

----------------------------------------------------------------------------
(* get *)

\* what get(Some(list)) returns for lists of at least minLen identifiers,
\* when the fetch does not fail for a reason of the database's
GetExact(minLen) ==
    (/\ Ended(Main) /\ op[Main] = "get" /\ Healthy(Main)
     /\ Len(ids[Main]) = 1 /\ Len(ids[Main][1]) >= minLen) =>
        /\ result[Main].kind = "rows"
        /\ Range(result[Main].rows) =
                {Car(Some(i), before[i]) : i \in Range(ids[Main][1]) \cap DOMAIN before}
        /\ Distinct(result[Main].rows)

(* C12 as claimed: get(ids) with ids present returns exactly the rows whose   *)
(* identifier is a member of ids, each once even when its identifier is       *)
(* repeated, identifiers without a row adding nothing and causing no failure, *)
(* and no other row.                                                          *)
C12_GetExact_AsClaimed == GetExact(0)

(* C12 amended: the same for a list of at least one identifier.  (For the     *)
(* empty list the statement is SELECT ... WHERE id IN (), which the database  *)
(* rejects: get(Some([])) ends with the error.)                               *)
C12_GetExact == GetExact(1)

\* a list of two identifiers, of which one row comes back, and once: the
\* other identifier is a repetition or has no row; the table has another row
C12_Witness ==
    /\ Ended(Main) /\ op[Main] = "get" /\ Len(ids[Main]) = 1
    /\ Len(ids[Main][1]) = 2
    /\ result[Main].kind = "rows" /\ Len(result[Main].rows) = 1
    /\ Cardinality(DOMAIN table) = 2

----------------------------------------------------------------------------
(* Reads between writes: a client that makes any call, then get(None),     *)
(* then any call, then get(None) again.                                    *)

GetAll == Req("get", <<>>, None)

GetsScript ==
    << ConcRequests,
       {GetAll},
       ConcRequests \cup {Req("get", <<>>, Some(<<1, MissingId>>))},
       {GetAll} >>

InitGets == InitCommon /\ ProviderReady /\ MainServing /\ script = GetsScript

SpecGets == InitGets /\ [][NextScenario]_vars

\* the committed table when the k-th call of the script was made
TableBefore(k) == IF k = 1 THEN InitTable ELSE History[k - 1].table

AllRows(tbl) == {Car(Some(i), tbl[i]) : i \in DOMAIN tbl}

(* C13: get has no effect on the table: every get call (the second and the    *)
(* fourth call of the script, and the third when it is a get) leaves the      *)
(* table as it was when the call was made, whether the fetch succeeds or      *)
(* fails; a get(None) that succeeds returns all the rows of the table; and    *)
(* when no committed write lies between the two get(None) calls, they return  *)
(* the same set of rows.                                                      *)
C13_GetHasNoEffect ==
    /\ \A k \in 1..Len(History) :
            (k \in {2, 4} \/ History[k].result.kind = "rows") =>
                History[k].table = TableBefore(k)
    /\ \A k \in {2, 4} \cap 1..Len(History) :
            History[k].result.kind = "rows" =>
                /\ Range(History[k].result.rows) = AllRows(TableBefore(k))
                /\ Distinct(History[k].result.rows)
    /\ (/\ Len(History) = 4
        /\ History[2].result.kind = "rows" /\ History[4].result.kind = "rows"
        /\ History[3].table = History[2].table) =>
            Range(History[2].result.rows) = Range(History[4].result.rows)

\* the first call changed the table, the third was a get that returned rows,
\* and both get(None) calls returned the rows of the table
C13_Witness ==
    /\ Len(History) = 4
    /\ History[1].table # InitTable
    /\ History[2].result.kind = "rows" /\ History[2].result.rows # <<>>
    /\ History[3].result.kind = "rows" /\ History[3].result.rows # <<>>
    /\ History[4].result.kind = "rows"
    /\ History[4].result.rows = History[2].result.rows

----------------------------------------------------------------------------
(* The Reply Mapper: Reply / AddReply built from what a call returned      *)

Reply(code, name) == [error_code |-> code, error_name |-> name]
AddReply(code, name, optIds) ==
    [error_code |-> code, error_name |-> name, ids |-> optIds]

\* error_name_of that never finds a name
error_name_none(tbl, code) == None

\* the lookup of a code in the Error Name Table: its name if present,
\* otherwise no name
error_name_of(tbl, code) == IF code \in DOMAIN tbl THEN Some(tbl[code]) ELSE None

\* get_error_reply!(code, dp.error), get_error_add_reply!(code, dp.error)
get_error_reply(code, tbl) == Reply(code, error_name_of(tbl, code))
get_error_add_reply(code, tbl) == AddReply(code, error_name_of(tbl, code), None)

\* get_ok_reply!(), get_ok_add_reply!(ids): the table is not handed to them
get_ok_reply == Reply(ReplyOk, None)
get_ok_add_reply(newIds) == AddReply(ReplyOk, None, Some(newIds))

\* the reply for the outcome res of a call of operation o
ReplyOf(o, res, tbl) ==
    IF res.code = ReplyOk
    THEN IF o = "add" THEN get_ok_add_reply(res.ids[1]) ELSE get_ok_reply
    ELSE IF o = "add" THEN get_error_add_reply(res.code, tbl)
    ELSE get_error_reply(res.code, tbl)

----------------------------------------------------------------------------
(* Start-up: the provider is constructed, then a client calls the          *)
(* collection.                                                             *)

collectionVars == <<table, nextId, pc, op, items, ids, idx, count, wset, tx,
                    result, failed, hits, before, script, trace>>

InitProvider ==
    /\ InitCommon
    /\ MainServing
    /\ script = <<>>
    /\ provider = "pool"
    /\ error = NoErrors
    /\ startup = {}

\* DataProvider::new
DataProvider_new ==
    /\ PoolNewOk \/ PoolNewErr \/ ErrorsLoadOk \/ ErrorsLoadErr
    /\ UNCHANGED <<collectionVars, helper, mainVars>>

\* the collections exist once EntityFramework::new has the provider
ProviderCall ==
    /\ provider = "ready"
    /\ \E req \in ConcRequests : Call(Main, req)
    /\ before' = table
    /\ UNCHANGED <<script, trace>>
    /\ UNCHANGED outerVars

NextProvider == DataProvider_new \/ ProviderCall \/ Step(Main) \/ ClientReturn

SpecProvider == InitProvider /\ [][NextProvider]_vars

\* the reply of the call that has ended
TheReply == ReplyOf(op[Main], result[Main], error)

\* the reply of a call that ended with one of codes carries the code and the
\* name the table has for it, or no name when the table has none
NameResolved(codes) ==
    (Ended(Main) /\ result[Main].kind = "outcome" /\ result[Main].code \in codes) =>
        /\ TheReply.error_code = result[Main].code
        /\ result[Main].code \in DOMAIN error =>
                TheReply.error_name = Some(error[result[Main].code])
        /\ result[Main].code \notin DOMAIN error => TheReply.error_name = None

C15_StartupSurvivesLoadFailure ==
    /\ []("errors" \in startup => provider = "ready" /\ error = NoErrors)
    /\ [](provider = "panicked" => startup = {"pool"})
    /\ [][provider = "ready" => provider' = "ready" /\ error' = error]_vars

\* the load failed, and a call of the collection has since committed
C15_Witness ==
    /\ "errors" \in startup /\ provider = "ready" /\ error = NoErrors
    /\ Ended(Main) /\ IsSuccess(Main) /\ table # InitTable

----------------------------------------------------------------------------
(* Failures of single round trips *)

(* C16: when the COMMIT of an add, modify or remove transaction fails, the    *)
(* call reports DatabaseError (add: with no identifier list) and nothing of   *)
(* the batch is in the table: the table is the one of before the call, no     *)
(* identifier generated for the batch has a row, no row an update hit has     *)
(* changed and no row is missing.                                             *)
C16_CommitFailure ==
    (Ended(Main) /\ "commit" \in failed[Main]) =>
        /\ op[Main] \in {"add", "modify", "remove"}
        /\ Reported(Main, DatabaseError)
        /\ result[Main].ids = None
        /\ tx[Main] = "commit_failed"
        /\ table = before
        /\ \A k \in 1..Len(ids[Main]) :
                op[Main] = "add" => ids[Main][k] \notin DOMAIN table
        /\ \A k \in 1..Len(hits[Main]) : table[hits[Main][k]] = before[hits[Main][k]]
        /\ op[Main] = "remove" => Range(ids[Main]) \subseteq DOMAIN table

\* the commit failed after every statement of a batch of two had succeeded
\* inside the transaction
C16_Witness ==
    /\ Ended(Main) /\ "commit" \in failed[Main]
    /\ Reported(Main, DatabaseError)
    /\ \/ op[Main] = "add" /\ Len(ids[Main]) = 2
       \/ /\ op[Main] = "modify" /\ Len(hits[Main]) = 2
          /\ \E k \in 1..2 : items[Main][k].car_name # before[hits[Main][k]]
       \/ op[Main] = "remove" /\ Len(ids[Main]) = 2

\* the update of the item the loop of modify is at has just failed
UpdateFails == "update" \notin failed[Main] /\ "update" \in failed'[Main]

(* C17: when the UPDATE of item j of modify errors, the next round trip of    *)
(* the call is the ROLLBACK and the one after it none: no UPDATE is issued    *)
(* for an item after j (the loop stays at item j), the comparison of the      *)
(* count with the number of items is not made (the outcome is never           *)
(* NotFoundError, even when items before j matched no row, and never          *)
(* Success), the table is unchanged, and the outcome is DatabaseError once    *)
(* the rollback has gone through.                                             *)
C17_UpdateErrorRollsBack ==
    /\ [][UpdateFails =>
            /\ op[Main] = "modify" /\ pc[Main] = "update"
            /\ pc'[Main] = "rollback_db" /\ idx'[Main] = idx[Main]]_vars
    /\ [][pc[Main] = "rollback_db" => pc'[Main] = "done"]_vars
    /\ []((Ended(Main) /\ "update" \in failed[Main]) =>
            /\ idx[Main] < Len(items[Main])
            /\ Len(hits[Main]) <= idx[Main]
            /\ table = before
            /\ result[Main].kind = "outcome" => Reported(Main, DatabaseError)
            /\ "rollback" \notin failed[Main] =>
                    /\ Reported(Main, DatabaseError)
                    /\ tx[Main] = "rolledback")

\* the first item matched no row and the update of the second errored
C17_Witness ==
    /\ Ended(Main) /\ op[Main] = "modify" /\ "update" \in failed[Main]
    /\ Len(items[Main]) = 2 /\ idx[Main] = 1 /\ count[Main] = 0
    /\ Reported(Main, DatabaseError)

----------------------------------------------------------------------------
(* The statements of one batch *)

\* the call is suspended at the statement of item idx + 1 of its batch
AtStatement == pc[Main] \in {"insert", "update"}

\* the statement of item idx + 1 succeeded: the loop moves to item idx + 2, or
\* leaves for the commit or the comparison after the last item
StatementSucceeded ==
    /\ failed'[Main] = failed[Main]
    /\ idx'[Main] = idx[Main] + 1
    /\ IF idx'[Main] < Len(items[Main]) THEN pc'[Main] = pc[Main]
       ELSE pc'[Main] \in {"commit", "rollback_nf"}
    /\ pc[Main] = "insert" =>
            /\ ids'[Main] = Append(ids[Main], nextId)
            /\ wset'[Main][nextId] = items[Main][idx[Main] + 1].car_name
    /\ (pc[Main] = "update" /\ hits'[Main] # hits[Main]) =>
            /\ hits'[Main] = Append(hits[Main], Keys(items[Main])[idx[Main] + 1])
            /\ wset'[Main][Keys(items[Main])[idx[Main] + 1]]
                    = items[Main][idx[Main] + 1].car_name

\* the statement of item idx + 1 failed: the loop is left for the rollback
StatementFailed ==
    /\ failed'[Main] # failed[Main]
    /\ idx'[Main] = idx[Main]
    /\ pc'[Main] = "rollback_db"

(* C18: in one add or modify call the statements issued are those of items    *)
(* 1, 2, ... in that order: the call is at the statement of item idx + 1 only *)
(* while no round trip of it has failed and items 1..idx have had their       *)
(* statement succeed; the statement either succeeds, and the next one is      *)
(* that of item idx + 2 (none after the last item), or fails, and then the    *)
(* call never issues a statement again: the loop is entered from begin only   *)
(* and never re-entered.                                                      *)
C18_StatementsInOrder ==
    /\ [](AtStatement =>
            /\ failed[Main] = {} /\ tx[Main] = "open"
            /\ idx[Main] < Len(items[Main])
            /\ pc[Main] = "insert" => op[Main] = "add" /\ Len(ids[Main]) = idx[Main]
            /\ pc[Main] = "update" => op[Main] = "modify")
    /\ [][AtStatement => StatementSucceeded \/ StatementFailed]_vars
    /\ [][(~AtStatement /\ pc'[Main] \in {"insert", "update"}) =>
            pc[Main] = "begin" /\ idx'[Main] = 0]_vars

\* modify is at the statement of its second item, the first having succeeded
C18_Witness ==
    /\ op[Main] = "modify" /\ pc[Main] = "update"
    /\ Len(items[Main]) = 2 /\ idx[Main] = 1
    /\ hits[Main] = <<Keys(items[Main])[1]>>

----------------------------------------------------------------------------
(* The Batch Expression Builder on its own *)

NextBuilder ==
    /\ HelperCall \/ HelperNext \/ HelperReturn
    /\ UNCHANGED <<collectionVars, providerVars, mainVars>>

SpecBuilder == Init /\ [][NextBuilder]_vars

Commas(chars) == Cardinality({k \in 1..Len(chars) : chars[k] = ","})

(* C19: for a list of at least one identifier the builder returns the decimal *)
(* renderings of the identifiers, in the order of the list and repetitions    *)
(* kept, with one comma between two neighbours and none before the first or   *)
(* after the last: cut at its commas the result has one field per identifier, *)
(* the k-th being the k-th identifier in decimal and reading back as that     *)
(* identifier; and the result is the value of the function get_ids_as_exp of  *)
(* the list, the function get and remove build their statements with.         *)
C19_CommaJoined ==
    (helper.pc = "done" /\ Len(helper.ids) >= 1) =>
        LET fields == SplitCommas(helper.result, 1, <<>>, <<>>)
        IN  /\ Len(fields) = Len(helper.ids)
            /\ \A k \in 1..Len(fields) :
                    /\ fields[k] = to_string(helper.ids[k])
                    /\ Len(fields[k]) > 0
                    /\ FieldValue(fields[k]) = helper.ids[k]
            /\ Commas(helper.result) = Len(helper.ids) - 1
            /\ Head(helper.result) # ","
            /\ helper.result[Len(helper.result)] # ","
            /\ helper.result = get_ids_as_exp(helper.ids)
            /\ InListOk(helper.result)

\* the same identifier, of several digits, twice
C19_Witness ==
    /\ helper.pc = "done" /\ Len(helper.ids) = 2
    /\ helper.ids[1] = helper.ids[2]
    /\ Len(to_string(helper.ids[1])) = 3
    /\ Len(helper.result) = 7

----------------------------------------------------------------------------
(* Items without an identifier given to modify, on a table with or without *)
(* a row of id 0                                                           *)

\* the table with a row whose id is 0
ZeroTable == [i \in {0, 1, 2} |-> IF i = 2 THEN "Saab" ELSE "Volvo"]

KeylessItems == SeqsUpTo({Car(o, n) : o \in {None, Some(1)}, n \in Names}, MaxLen)

InitKeyless ==
    /\ InitWith(InitTable) \/ InitWith(ZeroTable)
    /\ ProviderReady
    /\ MainServing
    /\ script = <<>>

\* the calls of the client: the modify batches above among the others
KeylessRequests == {Req("modify", its, <<>>) : its \in KeylessItems} \cup ConcRequests

KeylessCall ==
    /\ \E req \in KeylessRequests : Call(Main, req)
    /\ before' = table
    /\ UNCHANGED <<script, trace>>
    /\ UNCHANGED outerVars

NextKeyless == KeylessCall \/ Step(Main) \/ ClientReturn

SpecKeyless == InitKeyless /\ [][NextKeyless]_vars

\* the positions of the items of the batch that carry no identifier
Keyless == {k \in 1..Len(items[Main]) : items[Main][k].id = None}
LastKeyless == CHOOSE k \in Keyless : \A j \in Keyless : j <= k
\* the identifiers the other items of the batch carry
GivenIds == {items[Main][k].id[1] : k \in (1..Len(items[Main])) \ Keyless}

(* C20: modify does not reject an item without identifier: when no round trip *)
(* of the call fails, the statement of every item is issued, that of an item  *)
(* without identifier being keyed by 0; the batch is rolled back with         *)
(* NotFoundError, the table unchanged, when the table has no row of id 0, and *)
(* is committed with Success when it has one (and a row for every identifier  *)
(* the other items give), the row of id 0 then carrying the name of the last  *)
(* item without identifier.                                                   *)
C20_AbsentIdIsZero ==
    (Ended(Main) /\ op[Main] = "modify" /\ Keyless # {} /\ failed[Main] = {}) =>
        /\ idx[Main] = Len(items[Main])
        /\ 0 \notin DOMAIN before =>
                /\ Reported(Main, NotFoundError)
                /\ tx[Main] = "rolledback"
                /\ table = before
                /\ 0 \notin Range(hits[Main])
        /\ (0 \in DOMAIN before /\ GivenIds \subseteq DOMAIN before) =>
                /\ IsSuccess(Main)
                /\ tx[Main] = "committed"
                /\ Occurrences(hits[Main], 0) = Cardinality(Keyless)
                /\ table[0] = items[Main][LastKeyless].car_name
                /\ DOMAIN table = DOMAIN before
                /\ \A i \in DOMAIN table \ Range(hits[Main]) : table[i] = before[i]

\* an item without identifier has overwritten the name of the row of id 0
C20_Witness ==
    /\ Ended(Main) /\ op[Main] = "modify" /\ IsSuccess(Main)
    /\ Keyless # {}
    /\ 0 \in DOMAIN before /\ table[0] # before[0]

----------------------------------------------------------------------------
(* Empty batches *)

\* the call under way was given an empty batch
EmptyBatch(o) ==
    /\ pc[Main] # "idle" /\ op[Main] = o
    /\ IF o = "remove" THEN ids[Main] = <<>> ELSE items[Main] = <<>>

(* C21: add and modify of an empty batch open a transaction, send no          *)
(* statement and go to the commit; when begin and commit succeed they report  *)
(* Success (add with an empty identifier list), the transaction committed and *)
(* the table unchanged.  remove of an empty list is not short-circuited: once *)
(* the transaction is open it sends its DELETE, whose IN list is the empty    *)
(* string the builder returns for the empty list; the database rejects it,    *)
(* the call never reaches the commit and never reports Success, the table is  *)
(* unchanged, and when the rollback goes through the transaction is rolled    *)
(* back and the outcome is DatabaseError.                                     *)
C21_EmptyBatches ==
    /\ \A o \in {"add", "modify"} : EmptyBatch(o) =>
            /\ pc[Main] \in {"begin", "commit", "done"}
            /\ table = before
            /\ (Ended(Main) /\ failed[Main] = {}) =>
                    /\ IsSuccess(Main)
                    /\ tx[Main] = "committed"
                    /\ o = "add" => result[Main].ids = Some(<<>>)
    /\ EmptyBatch("remove") =>
            /\ get_ids_as_exp(ids[Main]) = <<>>
            /\ pc[Main] \in {"begin", "delete", "rollback_db", "done"}
            /\ table = before
            /\ ~IsSuccess(Main)
            /\ (Ended(Main) /\ "begin" \notin failed[Main]) =>
                    /\ "syntax" \in failed[Main]
                    /\ "rollback" \notin failed[Main] =>
                            /\ Reported(Main, DatabaseError)
                            /\ tx[Main] = "rolledback"

\* remove of the empty list has ended: only its DELETE failed, the rollback
\* went through
C21_Witness ==
    /\ EmptyBatch("remove") /\ Ended(Main)
    /\ failed[Main] = {"syntax"}
    /\ Reported(Main, DatabaseError) /\ tx[Main] = "rolledback"

----------------------------------------------------------------------------
(* The start of main on its own, in every environment *)

EnvValues(texts) == {NotPresent, NotUnicode} \cup {Present(x) : x \in texts}

\* main is entered; DataProvider::new has not run yet
InitMain ==
    /\ InitCommon
    /\ script = <<>>
    /\ provider = "pool" /\ error = NoErrors /\ startup = {}
    /\ env \in [{ENV_HOST, ENV_PORT} -> EnvValues(HostTexts \cup PortTexts)]
    /\ env[ENV_HOST] \in EnvValues(HostTexts)
    /\ env[ENV_PORT] \in EnvValues(PortTexts)
    /\ main = MainFrame("host", None, None, None, <<>>, "")

NextMain ==
    /\ ReadHost \/ ReadPort \/ SelectAddr \/ BindOk \/ BindErr
    /\ UNCHANGED <<collectionVars, providerVars, helper>>

SpecMain == InitMain /\ [][NextMain]_vars

\* PORT holds text that parses as a 16-bit number
PortUsable == is_ok(env[ENV_PORT]) /\ parse_u16(env[ENV_PORT].val) # None

\* the three parts of the property, MY_BIN_HOST counting as set when what the
\* environment holds for it is of one of setKinds
ListenAddress(setKinds) ==
    /\ ENV_PORT \in Range(main.reads) => env[ENV_HOST].kind \in setKinds
    /\ env[ENV_HOST].kind \notin setKinds =>
            /\ ENV_PORT \notin Range(main.reads)
            /\ main.pc \in {"bind", "serving"} => main.addr = Some(DefaultAddr)
            /\ main.pc = "panicked" => main.at = "bind"
    /\ (env[ENV_HOST].kind \in setKinds /\ ~PortUsable) =>
            /\ main.pc \in {"host", "port", "panicked"}
            /\ main.pc = "panicked" => main.at = "port"
            /\ main.port = None /\ main.addr = None

(* C22 as claimed: PORT is read only when MY_BIN_HOST is set; when it is not  *)
(* set the address handed to Server::bind is 127.0.0.1:3456 whatever PORT     *)
(* holds, and main does not panic before the bind; when it is set (to any     *)
(* value) and PORT is not set or is not a 16-bit number, main panics at the   *)
(* port and never selects an address.                                         *)
C22_ListenAddress_AsClaimed == ListenAddress({"Ok", "NotUnicode"})

(* C22 amended: the same with "set" read as "set to valid Unicode", which is  *)
(* what env::var(..).is_ok() tests: a MY_BIN_HOST whose value is not valid    *)
(* Unicode is treated as one that is not set (127.0.0.1:3456, PORT not read,  *)
(* no panic).                                                                 *)
C22_ListenAddress == ListenAddress({"Ok"})

\* MY_BIN_HOST is an address, PORT is one more than u16::MAX: main has
\* panicked at the port
C22_Witness ==
    /\ is_ok(env[ENV_HOST]) /\ parse_ipv4(env[ENV_HOST].val) # None
    /\ is_ok(env[ENV_PORT]) /\ ~PortUsable
    /\ AllDigits(env[ENV_PORT].val) /\ Len(env[ENV_PORT].val) = 5
    /\ main.pc = "panicked" /\ main.at = "port"
    /\ main.reads = <<ENV_HOST, ENV_HOST, ENV_HOST, ENV_PORT>>

====
